---- MODULE Spec2Model ----
(***************************************************************************)
(* Model of ariba's ReportFilter (src/ariba/report_filter.py): loading a   *)
(* report file into the two-level dict, filtering it, and writing the      *)
(* .xls and .tsv outputs.                                                  *)
(*                                                                         *)
(* A Python value is the record [k, n, s]: k is the Python type ("int",    *)
(* "float", "str", "flag"), n the number it holds, s the string it holds.  *)
(* A Python dict is the sequence of its [k |-> key, v |-> value] items in  *)
(* insertion order.  An input line is the sequence of its tab-separated    *)
(* fields.                                                                 *)
(***************************************************************************)
EXTENDS Integers, Sequences, FiniteSets, TLC

\* ------------------------------------------------------------------ bounds
\* Largest number of data lines (lines after the header) of an input file.
MaxLines == 2
\* Largest number of times _filter_dicts is called on one ReportFilter.
MaxFilterRuns == 2

\* ------------------------------------------- ariba.report (schema), ariba.flag
\* The columns of a report line the filter reads, in the order of the schema.
columns ==
    <<"ref_name", "flag", "reads", "ref_base_assembled", "pc_ident", "ctg",
      "known_var", "has_known_var">>

int_columns == <<"reads", "ref_base_assembled">>

float_columns == <<"pc_ident">>

\* The two shapes the schema's variant columns can take: the indicator
\* has_known_var is one of them, or it is not.
VarColumnsChoices == { <<"known_var">>, <<"known_var", "has_known_var">> }

\* The named bits of a flag, lowest bit first.
flags_in_order ==
    <<"assembled", "assembled_into_one_contig", "region_assembled_twice",
      "complete_gene", "unique_contig", "scaffold_graph_bad", "assembly_fail",
      "variants_suggest_collapsed_repeat", "hit_both_strands", "has_variant",
      "ref_seq_choose_fail">>

RECURSIVE Pow2(_)
Pow2(i) == IF i = 0 THEN 1 ELSE 2 * Pow2(i - 1)

FlagIndex(name) == CHOOSE i \in DOMAIN flags_in_order : flags_in_order[i] = name

\* Flag.has(name): the bit of that name is set in the flag's integer.
FlagHas(flagval, name) == (flagval.n \div Pow2(FlagIndex(name) - 1)) % 2 = 1

\* ------------------------------------------------------------ Python values
PyInt(n) == [k |-> "int", n |-> n, s |-> ""]
PyFloat(n) == [k |-> "float", n |-> n, s |-> ""]
PyStr(s) == [k |-> "str", n |-> 0, s |-> s]
PyFlag(n) == [k |-> "flag", n |-> n, s |-> ""]

\* The decimal strings of the model and the integers they denote.
IntTokens ==
    {"0", "1", "2", "3", "4", "5", "6", "27", "64", "89", "90"}

IntValue(tok) ==
    CASE tok = "0" -> 0 [] tok = "1" -> 1 [] tok = "2" -> 2 [] tok = "3" -> 3
      [] tok = "4" -> 4 [] tok = "5" -> 5 [] tok = "6" -> 6 [] tok = "27" -> 27
      [] tok = "64" -> 64 [] tok = "89" -> 89 [] tok = "90" -> 90

IntString(n) ==
    CASE n = 0 -> "0" [] n = 1 -> "1" [] n = 2 -> "2" [] n = 3 -> "3"
      [] n = 4 -> "4" [] n = 5 -> "5" [] n = 6 -> "6" [] n = 27 -> "27"
      [] n = 64 -> "64" [] n = 89 -> "89" [] n = 90 -> "90"

FloatString(n) ==
    CASE n = 0 -> "0.0" [] n = 1 -> "1.0" [] n = 2 -> "2.0" [] n = 3 -> "3.0"
      [] n = 4 -> "4.0" [] n = 5 -> "5.0" [] n = 6 -> "6.0" [] n = 27 -> "27.0"
      [] n = 64 -> "64.0" [] n = 89 -> "89.0" [] n = 90 -> "90.0"

\* str(value)
PyToStr(val) ==
    CASE val.k = "str" -> val.s
      [] val.k = "int" -> IntString(val.n)
      [] val.k = "flag" -> IntString(val.n)
      [] val.k = "float" -> FloatString(val.n)

\* value >= bound for an int bound: "True", "False", or "TypeError" when the
\* value is a str (Python 3 does not order str against int).
PyGe(val, bound) ==
    IF val.k = "str" THEN "TypeError"
    ELSE IF val.n >= bound THEN "True" ELSE "False"

\* ------------------------------------------------------------- Python dicts
DictKeys(d) == { d[i].k : i \in DOMAIN d }

DictHas(d, key) == key \in DictKeys(d)

DictGet(d, key) == d[CHOOSE i \in DOMAIN d : d[i].k = key].v

\* d[key] = value: in place for a key of d, appended for a new key.
DictSet(d, key, value) ==
    IF DictHas(d, key)
    THEN [i \in DOMAIN d |-> IF d[i].k = key THEN [k |-> key, v |-> value] ELSE d[i]]
    ELSE Append(d, [k |-> key, v |-> value])

IsNotKey(item, key) == item.k # key

\* del d[key]
DictDel(d, key) == SelectSeq(d, LAMBDA item : IsNotKey(item, key))

\* ------------------------------------------------------------ Record Model
ColumnIndex(key) == CHOOSE i \in DOMAIN columns : columns[i] = key

SeqToSet(sq) == { sq[i] : i \in DOMAIN sq }

\* try: d[key] = int(d[key]) / float(d[key])   except: assert d[key] == '.'
CoerceOk(tok) == tok \in IntTokens \/ tok = "."

CoerceInt(tok) == IF tok \in IntTokens THEN PyInt(IntValue(tok)) ELSE PyStr(tok)

CoerceFloat(tok) == IF tok \in IntTokens THEN PyFloat(IntValue(tok)) ELSE PyStr(tok)

\* The dict of a split line whose coercions all succeed.
LineDict(data) ==
    [key \in SeqToSet(columns) |->
        LET tok == data[ColumnIndex(key)] IN
        IF key = "flag" THEN PyFlag(IntValue(tok))
        ELSE IF key \in SeqToSet(int_columns) THEN CoerceInt(tok)
        ELSE IF key \in SeqToSet(float_columns) THEN CoerceFloat(tok)
        ELSE PyStr(tok)]

\* _report_line_to_dict(line): status "None" is the returned None, "ok" comes
\* with the dict, any other status is the exception raised.
report_line_to_dict(data) ==
    IF Len(data) # Len(columns) THEN [status |-> "None"]
    ELSE IF \E i \in DOMAIN int_columns : ~CoerceOk(data[ColumnIndex(int_columns[i])])
        THEN [status |-> "AssertionError"]
    ELSE IF \E i \in DOMAIN float_columns : ~CoerceOk(data[ColumnIndex(float_columns[i])])
        THEN [status |-> "AssertionError"]
    ELSE IF data[ColumnIndex("flag")] \notin IntTokens THEN [status |-> "ValueError"]
    ELSE [status |-> "ok", d |-> LineDict(data)]

\* _dict_to_report_line(report_dict): the fields of the line, in schema order.
dict_to_report_line(report_dict) ==
    [i \in DOMAIN columns |-> PyToStr(report_dict[columns[i]])]

\* ----------------------------------------------------------- Report Loader
\* line.rstrip(): trailing empty fields (and the tabs before them) are stripped.
RECURSIVE Rstrip(_)
Rstrip(line) ==
    IF line = <<>> THEN <<>>
    ELSE IF line[Len(line)] = "" THEN Rstrip(SubSeq(line, 1, Len(line) - 1))
    ELSE line

\* '#' + '\t'.join(report.columns)
expected_first_line ==
    <<"#ref_name">> \o SubSeq(columns, 2, Len(columns))

\* report_dict after report_dict[ref_name][ctg_name].append(line_dict)
AddLineDict(report_dict, line_dict) ==
    LET ref_name == line_dict["ref_name"].s
        ctg_name == line_dict["ctg"].s
        ctgs0 == IF DictHas(report_dict, ref_name) THEN DictGet(report_dict, ref_name) ELSE <<>>
        list0 == IF DictHas(ctgs0, ctg_name) THEN DictGet(ctgs0, ctg_name) ELSE <<>>
    IN  DictSet(report_dict, ref_name, DictSet(ctgs0, ctg_name, Append(list0, line_dict)))

\* The loop of _load_report from line i on.  exc is the exception raised
\* ("none": the loop ran to the end), at is the line that raised it.
RECURSIVE LoadLoop(_, _, _)
LoadLoop(f, i, report_dict) ==
    IF i > Len(f) THEN [exc |-> "none", at |-> 0, report |-> report_dict]
    ELSE LET line == Rstrip(f[i]) IN
         IF i = 1
         THEN IF line # expected_first_line
              THEN [exc |-> "Error", at |-> i, report |-> <<>>]
              ELSE LoadLoop(f, i + 1, report_dict)
         ELSE LET r == report_line_to_dict(line) IN
              IF r.status = "None"
              THEN \* raise Error(... str(len(data)) ...): data is not a name here
                   [exc |-> "NameError", at |-> i, report |-> <<>>]
              ELSE IF r.status # "ok"
              THEN [exc |-> r.status, at |-> i, report |-> <<>>]
              ELSE LoadLoop(f, i + 1, AddLineDict(report_dict, r.d))

load_report(infile) == LoadLoop(infile, 1, <<>>)

\* ------------------------------------------------------------------- state
VARIABLES
    infile,                        \* the lines of the input file
    report,                        \* self.report: ref_name -> ctg -> list of dicts
    min_pc_ident,                  \* self.min_pc_ident
    min_ref_base_assembled,        \* self.min_ref_base_assembled
    ignore_not_has_known_variant,  \* self.ignore_not_has_known_variant
    exclude_flags,                 \* self.exclude_flags
    var_columns,                   \* report.var_columns
    pc,                            \* where the program is
    exc,                           \* the exception that ended it, or "none"
    nfilter,                       \* completed calls of _filter_dicts
    xls,                           \* the file <outprefix>.xls
    tsv,                           \* the file <outprefix>.tsv
    loaded                         \* history: self.report as __init__ left it

vars ==
    <<infile, report, min_pc_ident, min_ref_base_assembled,
      ignore_not_has_known_variant, exclude_flags, var_columns, pc, exc,
      nfilter, xls, tsv, loaded>>

\* ----------------------------------------------------------- Filter Engine
\* _flag_passes_filter(flag, exclude_flags)
flag_passes_filter(flagval, excl) ==
    \A i \in DOMAIN excl : ~FlagHas(flagval, excl[i])

\* The non-essential filters reading has_known_var whatever the setting.
non_essential_filters_always_on(report_dict) ==
    report_dict["has_known_var"] = PyStr("1")

\* _report_dict_passes_non_essential_filters(report_dict)
report_dict_passes_non_essential_filters(report_dict) ==
    IF ignore_not_has_known_variant
    THEN report_dict["has_known_var"] = PyStr("1")
    ELSE TRUE

\* The essential filters without the ref_base_assembled cutoff.
essential_filters_without_ref_base_assembled(report_dict) ==
    IF ~flag_passes_filter(report_dict["flag"], exclude_flags) THEN "False"
    ELSE PyGe(report_dict["pc_ident"], min_pc_ident)

\* _report_dict_passes_essential_filters(report_dict): "True", "False", or
\* "TypeError" when a comparison the 'and' chain reaches raises.
report_dict_passes_essential_filters(report_dict) ==
    IF ~flag_passes_filter(report_dict["flag"], exclude_flags) THEN "False"
    ELSE IF PyGe(report_dict["pc_ident"], min_pc_ident) # "True"
        THEN PyGe(report_dict["pc_ident"], min_pc_ident)
    ELSE PyGe(report_dict["ref_base_assembled"], min_ref_base_assembled)

\* The PASS test without its non-essential half.
InPassDictsEssentialOnly(d) ==
    report_dict_passes_essential_filters(d) = "True"

InPassDicts(d) ==
    /\ report_dict_passes_essential_filters(d) = "True"
    /\ report_dict_passes_non_essential_filters(d)

InEssentialDicts(d) ==
    /\ report_dict_passes_essential_filters(d) = "True"
    /\ ~report_dict_passes_non_essential_filters(d)

InFailDicts(d) == report_dict_passes_essential_filters(d) = "False"

\* Demotion looping over report.columns instead of report.var_columns.
DemotedAllColumns(d) == [key \in DOMAIN d |-> PyStr(".")]

\* new_d after:  for key in report.var_columns: new_d[key] = '.'
Demoted(d) ==
    [key \in DOMAIN d |-> IF key \in SeqToSet(var_columns) THEN PyStr(".") ELSE d[key]]

\* The fallback taking the last essential-only record instead of the first.
FallbackLastEssential(pass_dicts, essential_dicts, fail_dicts) ==
    IF Len(pass_dicts) = 0 /\ Len(essential_dicts) > 0
    THEN [exc |-> "none", list |-> <<Demoted(essential_dicts[Len(essential_dicts)])>>]
    ELSE [exc |-> "none", list |-> pass_dicts]

\* The fallback with its inner 'if' outside the test of an empty pass_dicts.
FallbackAlways(pass_dicts, essential_dicts, fail_dicts) ==
    IF Len(essential_dicts) > 0
    THEN [exc |-> "none", list |-> Append(pass_dicts, Demoted(essential_dicts[1]))]
    ELSE [exc |-> "none", list |-> pass_dicts]

\* The end of _filter_list_of_dicts, from 'if len(pass_dicts) == 0' on: the
\* exception raised ("none": it returned) and the list returned.
Fallback(pass_dicts, essential_dicts, fail_dicts) ==
    IF Len(pass_dicts) = 0
    THEN IF Len(fail_dicts) + Len(essential_dicts) <= 0
         THEN [exc |-> "AssertionError", list |-> <<>>]
         ELSE IF Len(essential_dicts) > 0
         THEN [exc |-> "none", list |-> Append(pass_dicts, Demoted(essential_dicts[1]))]
         ELSE [exc |-> "none", list |-> pass_dicts]
    ELSE [exc |-> "none", list |-> pass_dicts]

\* _filter_list_of_dicts(dicts_list): the exception raised ("none": it
\* returned) and the list returned.
filter_list_of_dicts(dicts_list) ==
    IF Len(dicts_list) = 0 THEN [exc |-> "none", list |-> <<>>]
    ELSE IF \E i \in DOMAIN dicts_list :
                report_dict_passes_essential_filters(dicts_list[i]) = "TypeError"
        THEN [exc |-> "TypeError", list |-> <<>>]
    ELSE Fallback(SelectSeq(dicts_list, InPassDicts),
                  SelectSeq(dicts_list, InEssentialDicts),
                  SelectSeq(dicts_list, InFailDicts))

\* The (ref_name, ctg_name) pairs in the order the nested loops of
\* _filter_dicts visit them.
RECURSIVE GroupKeysFrom(_, _)
GroupKeysFrom(rep, i) ==
    IF i > Len(rep) THEN <<>>
    ELSE [j \in DOMAIN rep[i].v |-> <<rep[i].k, rep[i].v[j].k>>] \o GroupKeysFrom(rep, i + 1)

GroupKeys(rep) == GroupKeysFrom(rep, 1)

GroupList(rep, key) == DictGet(DictGet(rep, key[1]), key[2])

\* The first loop of _filter_dicts from the i-th group on.
RECURSIVE FilterLoop(_, _, _, _)
FilterLoop(rep, keys, i, keys_to_remove) ==
    IF i > Len(keys)
    THEN [exc |-> "none", report |-> rep, keys_to_remove |-> keys_to_remove]
    ELSE LET ref_name == keys[i][1]
             ctg_name == keys[i][2]
             r == filter_list_of_dicts(GroupList(rep, keys[i]))
         IN  IF r.exc # "none"
             THEN [exc |-> r.exc, report |-> rep, keys_to_remove |-> keys_to_remove]
             ELSE FilterLoop(
                    DictSet(rep, ref_name, DictSet(DictGet(rep, ref_name), ctg_name, r.list)),
                    keys, i + 1,
                    IF Len(r.list) = 0 THEN keys_to_remove \cup {keys[i]}
                    ELSE keys_to_remove)

\* The second loop deleting the emptied groups but collecting no reference.
RECURSIVE RemoveKeysOnly(_, _, _)
RemoveKeysOnly(rep, keys_to_remove, refs_to_remove) ==
    IF keys_to_remove = {} THEN [report |-> rep, refs_to_remove |-> refs_to_remove]
    ELSE LET key == CHOOSE x \in keys_to_remove : TRUE
         IN  RemoveKeysOnly(DictSet(rep, key[1], DictDel(DictGet(rep, key[1]), key[2])),
                            keys_to_remove \ {key}, refs_to_remove)

\* The second loop of _filter_dicts: delete the emptied groups, collecting
\* the references left with no contig.
RECURSIVE RemoveKeys(_, _, _)
RemoveKeys(rep, keys_to_remove, refs_to_remove) ==
    IF keys_to_remove = {} THEN [report |-> rep, refs_to_remove |-> refs_to_remove]
    ELSE LET key == CHOOSE x \in keys_to_remove : TRUE
             ctgs == DictDel(DictGet(rep, key[1]), key[2])
         IN  RemoveKeys(DictSet(rep, key[1], ctgs), keys_to_remove \ {key},
                        IF Len(ctgs) = 0 THEN refs_to_remove \cup {key[1]}
                        ELSE refs_to_remove)

\* The third loop of _filter_dicts: delete the collected references.
RECURSIVE RemoveRefs(_, _)
RemoveRefs(rep, refs_to_remove) ==
    IF refs_to_remove = {} THEN rep
    ELSE LET ref_name == CHOOSE x \in refs_to_remove : TRUE
         IN  RemoveRefs(DictDel(rep, ref_name), refs_to_remove \ {ref_name})

\* _filter_dicts(): the exception raised and self.report as it leaves it.
filter_dicts(rep) ==
    LET looped == FilterLoop(rep, GroupKeys(rep), 1, {}) IN
    IF looped.exc # "none" THEN [exc |-> looped.exc, report |-> looped.report]
    ELSE LET removed == RemoveKeys(looped.report, looped.keys_to_remove, {})
         IN  [exc |-> "none", report |-> RemoveRefs(removed.report, removed.refs_to_remove)]

\* -------------------------------------------------------------- Serializers
\* The order sorted() gives the names of the model.
NameRank(name) ==
    CASE name = "c1" -> 1 [] name = "c2" -> 2 [] name = "r1" -> 3 [] name = "r2" -> 4

\* sorted(d): the keys of a dict in increasing order.
RECURSIVE SortedNames(_)
SortedNames(names) ==
    IF names = {} THEN <<>>
    ELSE LET least == CHOOSE x \in names : \A y \in names : NameRank(x) <= NameRank(y)
         IN  <<least>> \o SortedNames(names \ {least})

SortedKeys(d) == SortedNames(DictKeys(d))

RECURSIVE Flatten(_)
Flatten(seqs) == IF seqs = <<>> THEN <<>> ELSE Head(seqs) \o Flatten(Tail(seqs))

\* The lines the nested loops of both writers emit after the header line.
ReportRows(rep) ==
    Flatten([i \in DOMAIN SortedKeys(rep) |->
        LET ctgs == DictGet(rep, SortedKeys(rep)[i]) IN
        Flatten([j \in DOMAIN SortedKeys(ctgs) |->
            LET report_dicts == DictGet(ctgs, SortedKeys(ctgs)[j]) IN
            [n \in DOMAIN report_dicts |-> dict_to_report_line(report_dicts[n])]])])

\* The .tsv with the rows in the order of the dicts, not sorted.
write_report_tsv_unsorted(rep) ==
    <<expected_first_line>> \o
    Flatten([i \in DOMAIN rep |->
        Flatten([j \in DOMAIN rep[i].v |->
            [n \in DOMAIN rep[i].v[j].v |-> dict_to_report_line(rep[i].v[j].v[n])]])])

\* What _write_report_tsv writes: the '#' header line, then the rows.
write_report_tsv(rep) == <<expected_first_line>> \o ReportRows(rep)

\* What _write_report_xls saves: the header row, then the rows.
write_report_xls(rep) == <<columns>> \o ReportRows(rep)

NoFile == [state |-> "absent", rows |-> <<>>]

\* ------------------------------------------------------------------ inputs
Groups == { <<"r1", "c1">>, <<"r1", "c2">>, <<"r2", "c1">> }

\* [flag, ref_base_assembled, pc_ident, has_known_var] of the kinds of record.
RecordKinds ==
    { <<"27", "1", "90", "1">>,     \* passes both predicates
      <<"27", "1", "90", "0">>,     \* passes the essential predicate only
      <<"64", "1", "90", "1">>,     \* assembly_fail is set
      <<"27", "1", "89", "1">>,     \* identity below the default minimum
      <<"27", "0", "90", "0">>,     \* no reference base assembled
      <<"27", "1", ".", "1">> }     \* identity is the sentinel

GoodLine(grp, kind, n) ==
    <<grp[1], kind[1], IntString(n), kind[2], kind[3], grp[2], "v", kind[4]>>

\* The n-th data line of a file: a well-formed record, or a malformed line.
DataLines(n) ==
    { GoodLine(grp, kind, n) : grp \in Groups, kind \in RecordKinds }
    \cup { <<"r1", "27", IntString(n), "1", "90", "c1", "v">>,      \* a column short
           <<"r1", "27", IntString(n), "1", "90", "c1", "v", "">>,  \* last field empty
           <<"r1", "27", IntString(n), "1", "x", "c1", "v", "1">> } \* not a number

FirstLines == { expected_first_line, columns }

\* The input files: empty, or a first line and up to MaxLines data lines.
Files ==
    { <<>> } \cup
    UNION { { <<h>> \o body : h \in FirstLines,
                              body \in { b \in [1..n -> UNION {DataLines(i) : i \in 1..n}] :
                                           \A i \in 1..n : b[i] \in DataLines(i) } }
            : n \in 0..MaxLines }

DefaultMinPcIdent == 90
DefaultMinRefBaseAssembled == 1
DefaultExcludeFlags == <<"assembly_fail", "ref_seq_choose_fail">>

\* ----------------------------------------------------------------- actions
\* ReportFilter(infile, ...) before its body runs.
Init ==
    /\ infile \in Files
    /\ min_pc_ident = DefaultMinPcIdent
    /\ min_ref_base_assembled = DefaultMinRefBaseAssembled
    /\ ignore_not_has_known_variant \in BOOLEAN
    /\ exclude_flags \in { DefaultExcludeFlags, <<"ref_seq_choose_fail">> }
    /\ var_columns \in VarColumnsChoices
    /\ report = <<>>
    /\ pc = "start"
    /\ exc = "none"
    /\ nfilter = 0
    /\ xls = NoFile
    /\ tsv = NoFile
    /\ loaded = <<>>

\* __init__: self.report = self._load_report(infile)
Load ==
    /\ pc = "start"
    /\ LET r == load_report(infile) IN
        /\ exc' = r.exc
        /\ report' = r.report
        /\ loaded' = r.report
        /\ pc' = IF r.exc = "none" THEN "loaded" ELSE "load_failed"
    /\ UNCHANGED <<infile, min_pc_ident, min_ref_base_assembled,
                   ignore_not_has_known_variant, exclude_flags, var_columns,
                   nfilter, xls, tsv>>

\* self._filter_dicts(): the first statement of run(), or a call of its own
\* before run().
FilterDicts ==
    /\ pc \in {"loaded", "filtered"}
    /\ nfilter < MaxFilterRuns
    /\ LET r == filter_dicts(report) IN
        /\ exc' = r.exc
        /\ report' = r.report
        /\ pc' = IF r.exc = "none" THEN "filtered" ELSE "filter_failed"
        /\ nfilter' = IF r.exc = "none" THEN nfilter + 1 ELSE nfilter
    /\ UNCHANGED <<infile, min_pc_ident, min_ref_base_assembled,
                   ignore_not_has_known_variant, exclude_flags, var_columns,
                   xls, tsv, loaded>>

\* self._write_report_xls(outprefix + '.xls'): workbook.save() writes the
\* file, or raises having written nothing or part of it.
WriteXls ==
    /\ pc = "filtered"
    /\ \/ /\ xls' = [state |-> "written", rows |-> write_report_xls(report)]
          /\ pc' = "xls_written"
          /\ exc' = "none"
       \/ /\ xls' \in { NoFile, [state |-> "partial", rows |-> <<>>] }
          /\ pc' = "xls_failed"
          /\ exc' = "OSError"
    /\ UNCHANGED <<infile, report, min_pc_ident, min_ref_base_assembled,
                   ignore_not_has_known_variant, exclude_flags, var_columns,
                   nfilter, tsv, loaded>>

\* self._write_report_tsv(outprefix + '.tsv'): writes the file, or raises
\* in open_file_write (nothing written) or in a print (part written).
WriteTsv ==
    /\ pc = "xls_written"
    /\ \/ /\ tsv' = [state |-> "written", rows |-> write_report_tsv(report)]
          /\ pc' = "done"
          /\ exc' = "none"
       \/ /\ tsv' \in { NoFile, [state |-> "partial", rows |-> <<>>] }
          /\ pc' = "tsv_failed"
          /\ exc' = "OSError"
    /\ UNCHANGED <<infile, report, min_pc_ident, min_ref_base_assembled,
                   ignore_not_has_known_variant, exclude_flags, var_columns,
                   nfilter, xls, loaded>>

Next == Load \/ FilterDicts \/ WriteXls \/ WriteTsv

Spec == Init /\ [][Next]_vars

\* ------------------------------------------------------------ the claims
\* The collection as the constructor loaded it.
Loaded == loaded

LoadedGroups == SeqToSet(GroupKeys(Loaded))

\* _filter_dicts has returned at least once and nothing has raised in it.
FilteringCompleted == nfilter >= 1 /\ pc # "filter_failed"

HasGroup(rep, key) == DictHas(rep, key[1]) /\ DictHas(DictGet(rep, key[1]), key[2])

Essential(d) == report_dict_passes_essential_filters(d) = "True"

Both(d) == Essential(d) /\ report_dict_passes_non_essential_filters(d)

\* C1: after _filter_dicts, every group still in the collection holds a
\* non-empty list whose records all satisfy the essential predicate: no
\* excluded flag set, pc_ident >= min_pc_ident and ref_base_assembled >=
\* min_ref_base_assembled.
C1_RetainedPassEssential ==
    FilteringCompleted =>
        \A i \in DOMAIN report : \A j \in DOMAIN report[i].v :
            LET list == report[i].v[j].v IN
            /\ Len(list) > 0
            /\ \A n \in DOMAIN list :
                /\ \A x \in DOMAIN exclude_flags : ~FlagHas(list[n]["flag"], exclude_flags[x])
                /\ list[n]["pc_ident"].k = "float"
                /\ list[n]["pc_ident"].n >= min_pc_ident
                /\ list[n]["ref_base_assembled"].k = "int"
                /\ list[n]["ref_base_assembled"].n >= min_ref_base_assembled

\* A filtered collection that kept a record of one group and lost another group.
C1_Witness ==
    /\ FilteringCompleted
    /\ \E i \in DOMAIN report : \E j \in DOMAIN report[i].v : Len(report[i].v[j].v) >= 1
    /\ \E key \in LoadedGroups : ~HasGroup(report, key)

\* C2: a group with a record satisfying both predicates is filtered to exactly
\* its records satisfying both, in their order, each as it was loaded.
C2_PassBucketKept ==
    FilteringCompleted =>
        \A key \in LoadedGroups :
            LET L == GroupList(Loaded, key) IN
            (\E n \in DOMAIN L : Both(L[n])) =>
                /\ HasGroup(report, key)
                /\ GroupList(report, key) = SelectSeq(L, Both)

\* A group that kept a passing record and dropped an essential-only one.
C2_Witness ==
    /\ FilteringCompleted
    /\ ignore_not_has_known_variant
    /\ \E key \in LoadedGroups :
        LET L == GroupList(Loaded, key) IN
        /\ \E n \in DOMAIN L : Both(L[n])
        /\ \E n \in DOMAIN L : Essential(L[n]) /\ ~Both(L[n])
        /\ HasGroup(report, key)
        /\ Len(GroupList(report, key)) < Len(L)

\* The first record of a list that satisfies the essential predicate.
FirstEssential(L) ==
    L[CHOOSE n \in DOMAIN L : Essential(L[n]) /\ \A m \in 1..(n - 1) : ~Essential(L[m])]

\* C3: a group with no record satisfying both predicates but one satisfying the
\* essential predicate is filtered to one record: the first essential-passing
\* record, with every variant column set to ".".
C3_FallbackIsFirstEssentialDemoted ==
    FilteringCompleted =>
        \A key \in LoadedGroups :
            LET L == GroupList(Loaded, key) IN
            ((\A n \in DOMAIN L : ~Both(L[n])) /\ (\E n \in DOMAIN L : Essential(L[n]))) =>
                /\ HasGroup(report, key)
                /\ Len(GroupList(report, key)) = 1
                /\ \A col \in SeqToSet(columns) :
                    GroupList(report, key)[1][col] =
                        IF col \in SeqToSet(var_columns) THEN PyStr(".")
                        ELSE FirstEssential(L)[col]

\* A group of two essential-only records filtered to the demoted first one.
C3_Witness ==
    /\ FilteringCompleted
    /\ \E key \in LoadedGroups :
        LET L == GroupList(Loaded, key) IN
        /\ Len(L) >= 2
        /\ \A n \in DOMAIN L : Essential(L[n]) /\ ~Both(L[n])
        /\ HasGroup(report, key)
        /\ GroupList(report, key)[1]["known_var"] = PyStr(".")
        /\ GroupList(report, key)[1]["reads"] = L[1]["reads"]

\* C4: after _filter_dicts a group with no essential-passing record is gone, a
\* reference is gone exactly when all its groups are, no reference maps to an
\* empty mapping and no contig to an empty list.
C4_EmptyBranchesPruned ==
    FilteringCompleted =>
        /\ \A key \in LoadedGroups :
            (\A n \in DOMAIN GroupList(Loaded, key) : ~Essential(GroupList(Loaded, key)[n]))
                => ~HasGroup(report, key)
        /\ \A ref \in DictKeys(Loaded) :
            (~DictHas(report, ref)) <=>
                (\A ctg \in DictKeys(DictGet(Loaded, ref)) : ~HasGroup(report, <<ref, ctg>>))
        /\ \A i \in DOMAIN report :
            /\ Len(report[i].v) > 0
            /\ \A j \in DOMAIN report[i].v : Len(report[i].v[j].v) > 0

\* A reference lost one of its two groups and is still in the collection.
C4_Witness ==
    /\ FilteringCompleted
    /\ \E ref \in DictKeys(report) :
        /\ Len(DictGet(Loaded, ref)) = 2
        /\ Len(DictGet(report, ref)) = 1

\* C5: a call of _filter_dicts on a collection _filter_dicts produced returns
\* and leaves the collection as it was.
C5_Idempotent ==
    [][(nfilter >= 1 /\ pc = "filtered" /\ pc' \in {"filtered", "filter_failed"})
            => (pc' = "filtered" /\ report' = report)]_vars

\* Filtered twice, with a demoted record in the collection.
C5_Witness ==
    /\ nfilter >= 2
    /\ pc = "filtered"
    /\ \E key \in LoadedGroups :
        /\ HasGroup(report, key)
        /\ GroupList(report, key)[1]["known_var"] = PyStr(".")

\* The records of the loaded collection, each with the group it is in.
LoadedRecords ==
    UNION { { <<key, GroupList(Loaded, key)[n]>> : n \in DOMAIN GroupList(Loaded, key) }
            : key \in LoadedGroups }

\* The number of the buckets PASS, ESSENTIAL-ONLY, FAIL a record falls in.
BucketCount(d) ==
    (IF InPassDicts(d) THEN 1 ELSE 0) + (IF InEssentialDicts(d) THEN 1 ELSE 0)
        + (IF InFailDicts(d) THEN 1 ELSE 0)

\* C6: on a collection the loader accepted, _filter_dicts raises nothing and
\* every record falls in exactly one of PASS, ESSENTIAL-ONLY and FAIL.
C6_FilteringCannotFail ==
    /\ pc # "filter_failed"
    /\ FilteringCompleted =>
        \A lr \in LoadedRecords : BucketCount(lr[2]) = 1

Failed == pc \in {"load_failed", "filter_failed", "xls_failed", "tsv_failed"}

\* C7 as claimed: run() ends with both files written from the same collection,
\* or fails with neither written.
C7_AllOrNothing ==
    /\ pc = "done" =>
        /\ xls.state = "written"
        /\ tsv.state = "written"
        /\ Tail(xls.rows) = Tail(tsv.rows)
    /\ Failed => (xls.state # "written" /\ tsv.state # "written")

\* C7 amended: run() ends with both files written from the same collection; a
\* failure of the load or of the filtering leaves both files untouched, a
\* failure writing the .xls leaves the .tsv untouched, and a failure writing
\* the .tsv comes after the .xls was written in full.
C7_XlsBeforeTsv ==
    /\ pc = "done" =>
        /\ xls.state = "written"
        /\ tsv.state = "written"
        /\ Tail(xls.rows) = Tail(tsv.rows)
    /\ pc \in {"load_failed", "filter_failed"} => (xls = NoFile /\ tsv = NoFile)
    /\ pc = "xls_failed" => (xls.state # "written" /\ tsv = NoFile)
    /\ pc = "tsv_failed" => (xls.state = "written" /\ tsv.state # "written")
    /\ tsv.state # "absent" => xls.state = "written"

\* A run that wrote both files with two records each.
C7_Witness ==
    /\ pc = "done"
    /\ Len(xls.rows) >= 3
    /\ Len(tsv.rows) >= 3

LineSchemaBad(f, i) ==
    IF i = 1 THEN Rstrip(f[i]) # expected_first_line
    ELSE Len(Rstrip(f[i])) # Len(columns)

LineCoercionBad(f, i) ==
    /\ i > 1
    /\ Len(Rstrip(f[i])) = Len(columns)
    /\ \/ \E c \in SeqToSet(int_columns) \cup SeqToSet(float_columns) :
            ~CoerceOk(f[i][ColumnIndex(c)])
       \/ f[i][ColumnIndex("flag")] \notin IntTokens

\* C8: when the first line the loader cannot take has the wrong header or the
\* wrong number of columns, the load ends with Error at that line, returns no
\* collection, and nothing is filtered or written.
C8_SchemaErrorRaisesError ==
    \A i \in DOMAIN infile :
        (/\ pc # "start"
         /\ LineSchemaBad(infile, i)
         /\ \A m \in 1..(i - 1) : ~LineSchemaBad(infile, m) /\ ~LineCoercionBad(infile, m))
        => /\ pc = "load_failed"
           /\ exc = "Error"
           /\ load_report(infile).at = i
           /\ report = <<>>
           /\ nfilter = 0
           /\ xls = NoFile
           /\ tsv = NoFile

\* C9: a record retained by _filter_dicts is a record loaded into the same
\* group with its non-variant fields as loaded, and a variant field differs
\* only on the one fallback record of a group with an empty PASS bucket.
C9_OnlyDemotionChangesRecords ==
    FilteringCompleted =>
        \A key \in SeqToSet(GroupKeys(report)) :
            \A n \in DOMAIN GroupList(report, key) :
                LET r == GroupList(report, key)[n] IN
                \E lr \in LoadedRecords :
                    /\ lr[1] = key
                    /\ lr[2]["reads"] = r["reads"]
                    /\ \A col \in SeqToSet(columns) \ SeqToSet(var_columns) :
                        r[col] = lr[2][col]
                    /\ (\E col \in SeqToSet(var_columns) : r[col] # lr[2][col]) =>
                        /\ Len(GroupList(report, key)) = 1
                        /\ \A m \in DOMAIN GroupList(Loaded, key) :
                            ~Both(GroupList(Loaded, key)[m])

\* One group kept a record untouched while another holds a demoted one.
C9_Witness ==
    /\ FilteringCompleted
    /\ \E key \in SeqToSet(GroupKeys(report)) :
        GroupList(report, key)[1]["known_var"] = PyStr(".")
    /\ \E key \in SeqToSet(GroupKeys(report)) :
        GroupList(report, key)[1]["known_var"] = PyStr("v")

\* C10: with ignore_not_has_known_variant False each group is filtered to
\* exactly its essential-passing records, in order and as loaded, whatever
\* their has_known_var, and is gone when there is none.
C10_NoDemotionWhenNotIgnoring ==
    (FilteringCompleted /\ ~ignore_not_has_known_variant) =>
        \A key \in LoadedGroups :
            LET E == SelectSeq(GroupList(Loaded, key), Essential) IN
            IF E = <<>> THEN ~HasGroup(report, key)
            ELSE HasGroup(report, key) /\ GroupList(report, key) = E

\* A group kept a record with has_known_var "0" and one with "1", as loaded.
C10_Witness ==
    /\ FilteringCompleted
    /\ ~ignore_not_has_known_variant
    /\ \E key \in SeqToSet(GroupKeys(report)) :
        LET list == GroupList(report, key) IN
        /\ \E n \in DOMAIN list : list[n]["has_known_var"] = PyStr("0")
        /\ \E n \in DOMAIN list : list[n]["has_known_var"] = PyStr("1")
        /\ \A n \in DOMAIN list : list[n]["known_var"] = PyStr("v")

====
